---- MODULE Spec2Model ----
(***************************************************************************)
(* Financial Data Sweeper (src/app.py): the load / clean / outlier /       *)
(* export pipeline of the page, as a state machine over small tables.      *)
(*                                                                         *)
(* A DataFrame is a record                                                 *)
(*   [columns, dtypes, rows, isnone]                                       *)
(* where rows is a sequence of [idx, cells]: idx is the pandas index label *)
(* (kept by dropna / drop_duplicates), cells one cell per column.          *)
(* A cell is a record [k, n, d, s]: k = "nan" (missing), k = "num" (the    *)
(* rational n/d in lowest terms, d > 0; float64 is modelled by exact       *)
(* rationals), or k = "str" (the text s, a sequence of characters).        *)
(***************************************************************************)
EXTENDS Integers, Sequences, FiniteSets

VARIABLES
    pc,              \* position in the script run
    uploaded_file,   \* name of the file the uploader returned (<<>>: None)
    parser,          \* the pandas reader load_data dispatched to
    df,              \* the loaded frame (the object clean_data receives)
    raw_shown,       \* what the "Raw Data" card rendered (line 181)
    method,          \* cleaning method passed to clean_data
    custom_fill,     \* custom fill value passed to clean_data (NaN: None)
    df_cleaned,      \* the frame clean_data returned
    df_again,        \* clean_data(df_cleaned) with the default arguments
    selected_column, \* column picked for the charts / outlier detection
    outliers,        \* the Series detect_outliers returned: <<idx, cell>>
    export_data,     \* convert_df's output: [format, lines]
    reloaded         \* load_data applied to export_data

vars == <<pc, uploaded_file, parser, df, raw_shown, method, custom_fill,
          df_cleaned, df_again, selected_column, outliers, export_data,
          reloaded>>

(***************************************************************************)
(* Bounds of the model.                                                    *)
(***************************************************************************)
MaxRows == 3
MaxOutRows == 5
MaxCsvRows == 3
MaxNameLen == 5

(***************************************************************************)
(* Cells and exact arithmetic.                                             *)
(***************************************************************************)
NaN == [k |-> "nan", n |-> 0, d |-> 1, s |-> <<>>]

Str(s) == [k |-> "str", n |-> 0, d |-> 1, s |-> s]

Abs(i) == IF i < 0 THEN -i ELSE i

RECURSIVE GCD(_, _)
GCD(a, b) == IF b = 0 THEN a ELSE GCD(b, a % b)

Num(n, d) ==
    LET g == GCD(Abs(n), d)
    IN  [k |-> "num", n |-> n \div g, d |-> d \div g, s |-> <<>>]

RAdd(a, b) == Num(a.n * b.d + b.n * a.d, a.d * b.d)

RSub(a, b) == Num(a.n * b.d - b.n * a.d, a.d * b.d)

RMul(a, b) == Num(a.n * b.n, a.d * b.d)

RDivInt(a, i) == Num(a.n, a.d * i)

\* Python's < and > on floats; any comparison with NaN is False.
RLess(a, b) == a.k = "num" /\ b.k = "num" /\ a.n * b.d < b.n * a.d

isna(c) == c.k = "nan"

\* The non-missing cells of a sequence of cells, in order (skipna=True).
RECURSIVE NotNa(_)
NotNa(cs) ==
    IF cs = <<>> THEN <<>>
    ELSE IF isna(Head(cs)) THEN NotNa(Tail(cs))
         ELSE <<Head(cs)>> \o NotNa(Tail(cs))

RECURSIVE RSum(_)
RSum(cs) == IF cs = <<>> THEN Num(0, 1) ELSE RAdd(Head(cs), RSum(Tail(cs)))

RECURSIVE Insert(_, _)
Insert(c, sorted) ==
    IF sorted = <<>> THEN <<c>>
    ELSE IF RLess(Head(sorted), c) THEN <<Head(sorted)>> \o Insert(c, Tail(sorted))
         ELSE <<c>> \o sorted

RECURSIVE Sorted(_)
Sorted(cs) == IF cs = <<>> THEN <<>> ELSE Insert(Head(cs), Sorted(Tail(cs)))

\* Series.mean(): the mean of the non-missing values, NaN when there is none.
mean(cs) ==
    LET v == NotNa(cs)
    IN  IF v = <<>> THEN NaN ELSE RDivInt(RSum(v), Len(v))

\* Series.quantile(q), q = qn/qd, pandas' default linear interpolation between
\* the order statistics at floor(h) and floor(h)+1, h = (n-1)q; NaN when the
\* column holds no value.
quantile(cs, qn, qd) ==
    LET v == Sorted(NotNa(cs))
        h == (Len(v) - 1) * qn
        lo == h \div qd
        fr == Num(h % qd, qd)
    IN  IF v = <<>> THEN NaN
        ELSE IF h % qd = 0 THEN v[lo + 1]
             ELSE RAdd(v[lo + 1], RMul(fr, RSub(v[lo + 2], v[lo + 1])))

\* Series.median(): the middle value, or the mean of the two middle values.
median(cs) == quantile(cs, 1, 2)

(***************************************************************************)
(* Frames.                                                                 *)
(***************************************************************************)
NoneDF == [columns |-> <<>>, dtypes |-> <<>>, rows |-> <<>>, isnone |-> TRUE]

Frame(columns, dtypes, rows) ==
    [columns |-> columns, dtypes |-> dtypes, rows |-> rows, isnone |-> FALSE]

WithRows(f, rows) == [f EXCEPT !.rows = rows]

ColIdx(f) == 1 .. Len(f.columns)

\* One column's cells, in row order.
Column(f, c) == [i \in 1 .. Len(f.rows) |-> f.rows[i].cells[c]]

RowHasNa(r) == \E c \in 1 .. Len(r.cells) : isna(r.cells[c])

RowAllNa(r) == \A c \in 1 .. Len(r.cells) : isna(r.cells[c])

RECURSIVE SelectRows(_, _, _)
\* The rows at the positions in keep, from position i on, in order.
SelectRows(rows, keep, i) ==
    IF i > Len(rows) THEN <<>>
    ELSE (IF i \in keep THEN <<rows[i]>> ELSE <<>>) \o SelectRows(rows, keep, i + 1)

\* Mutant of dropna: only the numeric columns are looked at (subset=numeric).
dropna_numeric_only(f) ==
    WithRows(f, SelectRows(f.rows,
        {i \in 1 .. Len(f.rows) :
            \A c \in ColIdx(f) :
                f.dtypes[c] \in {"int64", "float64"} => ~isna(f.rows[i].cells[c])}, 1))

\* Mutant of dropna: a row goes only when all its cells are missing (how='all').
dropna_how_all(f) ==
    WithRows(f, SelectRows(f.rows, {i \in 1 .. Len(f.rows) : ~RowAllNa(f.rows[i])}, 1))

\* df.dropna(): the rows with no missing cell in any column.
dropna(f) ==
    WithRows(f, SelectRows(f.rows, {i \in 1 .. Len(f.rows) : ~RowHasNa(f.rows[i])}, 1))

\* df.drop_duplicates(): keep='first' on all columns; a row goes when an
\* earlier row holds the same cells (missing cells compare equal), and the
\* kept rows keep their order and their index labels.
drop_duplicates(f) ==
    WithRows(f, SelectRows(f.rows,
        {i \in 1 .. Len(f.rows) :
            ~\E j \in 1 .. (i - 1) : f.rows[j].cells = f.rows[i].cells}, 1))

\* Mutant of select_dtypes_number: every column is selected.
select_dtypes_all(f) == ColIdx(f)

\* df.select_dtypes(include=['number']).columns
select_dtypes_number(f) == {c \in ColIdx(f) : f.dtypes[c] \in {"int64", "float64"}}

\* Mutant of fillna_numeric: the fill value is assigned to every cell of the
\* numeric columns, not only to the missing ones.
fillna_numeric_overwrite(f, value) ==
    LET numeric_cols == select_dtypes_number(f)
        filled(r) == [c \in ColIdx(f) |->
                        IF c \in numeric_cols /\ ~isna(value[c])
                        THEN value[c] ELSE r.cells[c]]
    IN  WithRows(f, [i \in 1 .. Len(f.rows) |->
                        [f.rows[i] EXCEPT !.cells = filled(f.rows[i])]])

\* df[numeric_cols] = df[numeric_cols].fillna(value): value[c] is the fill of
\* column c; fillna leaves a cell alone when it is not missing or when the
\* fill value itself is NaN.
fillna_numeric(f, value) ==
    LET numeric_cols == select_dtypes_number(f)
        filled(r) == [c \in ColIdx(f) |->
                        IF c \in numeric_cols /\ isna(r.cells[c]) /\ ~isna(value[c])
                        THEN value[c] ELSE r.cells[c]]
    IN  WithRows(f, [i \in 1 .. Len(f.rows) |->
                        [f.rows[i] EXCEPT !.cells = filled(f.rows[i])]])

(***************************************************************************)
(* clean_data (lines 108-127).  The fill branches assign into the frame    *)
(* they were passed, so a call has two results: the frame the caller's     *)
(* variable holds afterwards and the frame returned.                       *)
(***************************************************************************)
\* The argument frame after the call.
clean_data_arg(f, m, fill) ==
    CASE m = "drop" -> f
      [] m = "mean" -> fillna_numeric(f, [c \in ColIdx(f) |-> mean(Column(f, c))])
      [] m = "median" -> fillna_numeric(f, [c \in ColIdx(f) |-> median(Column(f, c))])
      [] m = "zero" -> fillna_numeric(f, [c \in ColIdx(f) |-> Num(0, 1)])
      [] m = "custom" /\ ~isna(fill) -> fillna_numeric(f, [c \in ColIdx(f) |-> fill])
      [] OTHER -> f

\* Mutant of clean_data: the duplicates are removed before the missing values
\* are handled.
clean_data_dedup_first(f, m, fill) ==
    CASE m = "drop" -> dropna(drop_duplicates(f))
      [] m \in {"mean", "median", "zero"} -> clean_data_arg(drop_duplicates(f), m, fill)
      [] m = "custom" /\ ~isna(fill) -> clean_data_arg(drop_duplicates(f), m, fill)
      [] OTHER -> NoneDF

\* The frame returned (None when no branch is taken).
clean_data(f, m, fill) ==
    CASE m = "drop" -> drop_duplicates(dropna(f))
      [] m \in {"mean", "median", "zero"} -> drop_duplicates(clean_data_arg(f, m, fill))
      [] m = "custom" /\ ~isna(fill) -> drop_duplicates(clean_data_arg(f, m, fill))
      [] OTHER -> NoneDF

(***************************************************************************)
(* Text of numbers.  A CSV file is a sequence of lines, a line a sequence  *)
(* of fields, a field a sequence of characters; the header is line 1.      *)
(* (Delimiters and quoting are not modelled: fields arrive split.)         *)
(***************************************************************************)
Digits == <<"0", "1", "2", "3", "4", "5", "6", "7", "8", "9">>

IsDigit(ch) == \E i \in 1 .. 10 : Digits[i] = ch

DigitVal(ch) == (CHOOSE i \in 1 .. 10 : Digits[i] = ch) - 1

RECURSIVE IntStr(_)
\* str(n) for n >= 0.
IntStr(n) == IF n < 10 THEN <<Digits[n + 1]>> ELSE IntStr(n \div 10) \o <<Digits[(n % 10) + 1]>>

RECURSIVE FracDigits(_, _, _)
\* The decimal digits of rem/d (0 <= rem < d), at most k of them.
FracDigits(rem, d, k) ==
    IF k = 0 \/ rem = 0 THEN <<>>
    ELSE <<Digits[((rem * 10) \div d) + 1]>> \o FracDigits((rem * 10) % d, d, k - 1)

\* repr of a float: sign, whole part, point, fraction ("1.0", "-2.5"); a
\* fraction that does not end is cut at 16 digits.
FloatStr(c) ==
    LET a == Abs(c.n)
        frac == FracDigits(a % c.d, c.d, 16)
    IN  (IF c.n < 0 THEN <<"-">> ELSE <<>>) \o IntStr(a \div c.d) \o <<".">>
            \o (IF frac = <<>> THEN <<"0">> ELSE frac)

RECURSIVE DigitsVal(_)
DigitsVal(ds) ==
    IF ds = <<>> THEN 0 ELSE DigitsVal(SubSeq(ds, 1, Len(ds) - 1)) * 10 + DigitVal(ds[Len(ds)])

RECURSIVE Pow10(_)
Pow10(k) == IF k = 0 THEN 1 ELSE 10 * Pow10(k - 1)

AllDigits(ds) == ds # <<>> /\ \A i \in 1 .. Len(ds) : IsDigit(ds[i])

Unsigned(fd) == IF fd # <<>> /\ fd[1] = "-" THEN Tail(fd) ELSE fd

PointAt(fd) == {i \in 1 .. Len(fd) : fd[i] = "."}

\* The field reads as a whole number: [-]digits.
IsIntField(fd) == AllDigits(Unsigned(fd))

\* The field reads as a number: [-]digits[.digits].
IsNumField(fd) ==
    LET u == Unsigned(fd)
    IN  \/ AllDigits(u)
        \/ \E p \in PointAt(u) :
            AllDigits(SubSeq(u, 1, p - 1)) /\ AllDigits(SubSeq(u, p + 1, Len(u)))

\* The number a numeric field reads as.
ParseNum(fd) ==
    LET u == Unsigned(fd)
        sign == IF fd[1] = "-" THEN -1 ELSE 1
    IN  IF PointAt(u) = {} THEN Num(sign * DigitsVal(u), 1)
        ELSE LET p == CHOOSE q \in PointAt(u) : TRUE
                 fr == SubSeq(u, p + 1, Len(u))
             IN  Num(sign * (DigitsVal(SubSeq(u, 1, p - 1)) * Pow10(Len(fr)) + DigitsVal(fr)),
                     Pow10(Len(fr)))

\* Fields read_csv takes for a missing value (two of its default na_values).
NaTokens == {<<>>, <<"N", "A">>}

(***************************************************************************)
(* pd.read_csv (line 105): the header names the columns; each column's     *)
(* dtype is inferred from its fields.  No row: object.  A field that is    *)
(* neither missing nor a number: object, and the fields stay text.  Only   *)
(* whole numbers, none missing: int64.  Otherwise float64.                 *)
(***************************************************************************)
csv_dtype(fds) ==
    IF fds = <<>> THEN "object"
    ELSE IF \E i \in 1 .. Len(fds) : fds[i] \notin NaTokens /\ ~IsNumField(fds[i])
         THEN "object"
    ELSE IF \A i \in 1 .. Len(fds) : fds[i] \notin NaTokens /\ IsIntField(fds[i])
         THEN "int64"
    ELSE "float64"

csv_cell(fd, dtype) ==
    IF fd \in NaTokens THEN NaN
    ELSE IF dtype = "object" THEN Str(fd)
    ELSE ParseNum(fd)

read_csv(lines) ==
    LET columns == lines[1]
        data == Tail(lines)
        dtypes == [c \in 1 .. Len(columns) |->
                      csv_dtype([i \in 1 .. Len(data) |-> data[i][c]])]
    IN  Frame(columns, dtypes,
              [i \in 1 .. Len(data) |->
                  [idx |-> i - 1,
                   cells |-> [c \in 1 .. Len(columns) |-> csv_cell(data[i][c], dtypes[c])]]])

\* Mutant of to_csv_lines: the index is written as a first, unnamed column
\* (to_csv without index=False).
to_csv_with_index(f) ==
    <<(<<<<>>>> \o f.columns)>> \o
    [i \in 1 .. Len(f.rows) |->
        <<IntStr(f.rows[i].idx)>> \o
        [c \in ColIdx(f) |->
            LET cell == f.rows[i].cells[c]
            IN  IF isna(cell) THEN <<>>
                ELSE IF cell.k = "str" THEN cell.s
                ELSE IF f.dtypes[c] = "int64"
                     THEN (IF cell.n < 0 THEN <<"-">> ELSE <<>>) \o IntStr(Abs(cell.n))
                     ELSE FloatStr(cell)]]

\* df.to_csv(output, index=False) (line 145): the header line, then one line
\* per row; a missing cell is the empty field, text is written as it is, a
\* number by its dtype (int64: digits; float64: repr).
to_csv_lines(f) ==
    <<f.columns>> \o
    [i \in 1 .. Len(f.rows) |->
        [c \in ColIdx(f) |->
            LET cell == f.rows[i].cells[c]
            IN  IF isna(cell) THEN <<>>
                ELSE IF cell.k = "str" THEN cell.s
                ELSE IF f.dtypes[c] = "int64"
                     THEN (IF cell.n < 0 THEN <<"-">> ELSE <<>>) \o IntStr(Abs(cell.n))
                     ELSE FloatStr(cell)]]

\* df.to_excel(writer, index=False) (lines 149-150): the sheet keeps each
\* cell's type, so it is the header and the rows of cells.
to_excel_sheet(f) == <<f.columns>> \o [i \in 1 .. Len(f.rows) |-> f.rows[i].cells]

\* convert_df (lines 141-152).
convert_df(f, format) ==
    CASE format = "csv" -> [format |-> "csv", lines |-> to_csv_lines(f)]
      [] format = "excel" -> [format |-> "excel", lines |-> to_excel_sheet(f)]
      [] OTHER -> [format |-> "none", lines |-> <<>>]

(***************************************************************************)
(* The uploaded files the model draws: one or two columns, each column's   *)
(* fields from the alphabet of its kind.                                   *)
(***************************************************************************)
ColumnNames == <<<<"x">>, <<"y">>>>

Schemas == {<<"num">>, <<"text">>, <<"num", "text">>, <<"num", "num">>}

CsvSchemas == {<<"num">>, <<"text">>, <<"num", "text">>}

NumFields == {<<>>, <<"1">>, <<"2">>}

TextFields == {<<>>, <<"a">>}

\* Values chosen so that every mean of up to four of them has a decimal
\* expansion that ends ("7" is text that reads as a number).
CsvNumFields == {<<>>, <<"3">>, <<"6">>}

CsvTextFields == {<<>>, <<"a">>, <<"7">>}

FileLines(schema, nums, texts) ==
    {fds \in [1 .. Len(schema) -> nums \cup texts] :
        \A c \in 1 .. Len(schema) :
            fds[c] \in (IF schema[c] = "num" THEN nums ELSE texts)}

\* Every file of at most maxRows data lines over these fields.
Files(schemas, maxRows, nums, texts) ==
    UNION {UNION {{<<SubSeq(ColumnNames, 1, Len(schema))>> \o data :
                        data \in [1 .. r -> FileLines(schema, nums, texts)]} :
                    r \in 0 .. maxRows} :
            schema \in schemas}

Methods == {"drop", "mean", "median", "zero", "custom"}

\* Values typed into the number_input of line 188.
CustomFills == {Num(1, 1), Num(3, 2)}

(***************************************************************************)
(* The script run (lines 166-336).                                         *)
(***************************************************************************)
EmptyDF == Frame(<<>>, <<>>, <<>>)

Init ==
    /\ pc = "start"
    /\ uploaded_file = <<>>
    /\ parser = "none"
    /\ df = EmptyDF
    /\ raw_shown = EmptyDF
    /\ method = "none"
    /\ custom_fill = NaN
    /\ df_cleaned = EmptyDF
    /\ df_again = EmptyDF
    /\ selected_column = 0
    /\ outliers = <<>>
    /\ export_data = [format |-> "none", lines |-> <<>>]
    /\ reloaded = EmptyDF

\* Lines 171-181: df = load_data(uploaded_file), then the Raw Data card.
LoadFrom(files) ==
    /\ pc = "start"
    /\ \E content \in files :
        /\ df' = read_csv(content)
        /\ raw_shown' = read_csv(content)
    /\ pc' = "loaded"
    /\ UNCHANGED <<uploaded_file, parser, method, custom_fill, df_cleaned,
                   df_again, selected_column, outliers, export_data, reloaded>>

Load == LoadFrom(Files(Schemas, MaxRows, NumFields, TextFields))

\* Lines 185-196: the selectbox, the number_input, the clean_data call.
Clean ==
    /\ pc = "loaded"
    /\ \E m \in Methods :
        \E fill \in (IF m = "custom" THEN CustomFills ELSE {NaN}) :
            /\ method' = m
            /\ custom_fill' = fill
            /\ df' = clean_data_arg(df, m, fill)
            /\ df_cleaned' = clean_data(df, m, fill)
    /\ pc' = "cleaned"
    /\ UNCHANGED <<uploaded_file, parser, raw_shown, df_again, selected_column,
                   outliers, export_data, reloaded>>

\* A second clean_data call on the cleaned frame with the default arguments
\* (method="drop", custom_fill=None).
CleanAgain ==
    /\ pc = "cleaned"
    /\ df_again' = clean_data(df_cleaned, "drop", NaN)
    /\ df_cleaned' = clean_data_arg(df_cleaned, "drop", NaN)
    /\ pc' = "cleaned_again"
    /\ UNCHANGED <<uploaded_file, parser, df, raw_shown, method, custom_fill,
                   selected_column, outliers, export_data, reloaded>>

Next == Load \/ Clean \/ CleanAgain

Spec == Init /\ [][Next]_vars

(***************************************************************************)
(* The uploader and load_data's dispatch on the file name.                 *)
(***************************************************************************)
NameChars == {".", "c", "s", "v", "C", "S", "V", "x", "l"}

FileNames == UNION {[1 .. n -> NameChars] : n \in 1 .. MaxNameLen}

\* str.lower(), on the letters the model's names use.
Lower(ch) ==
    CASE ch = "C" -> "c"
      [] ch = "S" -> "s"
      [] ch = "V" -> "v"
      [] OTHER -> ch

LowerSeq(name) == [i \in 1 .. Len(name) |-> Lower(name[i])]

\* str.endswith
EndsWith(name, suffix) ==
    /\ Len(name) >= Len(suffix)
    /\ SubSeq(name, Len(name) - Len(suffix) + 1, Len(name)) = suffix

\* type=["csv", "xlsx"] (line 77)
UploaderTypes == {<<"c", "s", "v">>, <<"x", "l", "s", "x">>}

\* st.sidebar.file_uploader (lines 75-79) hands over a file only when its
\* name ends in one of the listed types, compared without regard to case.
uploader_accepts(name) ==
    \E t \in UploaderTypes : EndsWith(LowerSeq(name), <<".">> \o t)

\* load_data (lines 103-105): the reader the file is handed to.
load_data(name) ==
    IF EndsWith(name, <<".", "c", "s", "v">>) THEN "read_csv" ELSE "read_excel"

\* Lines 75-79 and 96-97: a file is uploaded.
Upload ==
    /\ pc = "start"
    /\ \E name \in FileNames :
        /\ uploader_accepts(name)
        /\ uploaded_file' = name
    /\ pc' = "uploaded"
    /\ UNCHANGED <<parser, df, raw_shown, method, custom_fill, df_cleaned,
                   df_again, selected_column, outliers, export_data, reloaded>>

\* Lines 166-171: load_data picks the reader for the uploaded file.
LoadData ==
    /\ pc = "uploaded"
    /\ parser' = load_data(uploaded_file)
    /\ pc' = "parsed"
    /\ UNCHANGED <<uploaded_file, df, raw_shown, method, custom_fill, df_cleaned,
                   df_again, selected_column, outliers, export_data, reloaded>>

NextLoad == Upload \/ LoadData

SpecLoad == Init /\ [][NextLoad]_vars

(***************************************************************************)
(* Export (lines 326-335) and the reload of the downloaded file.           *)
(***************************************************************************)
LoadCsv == LoadFrom(Files(CsvSchemas, MaxCsvRows, CsvNumFields, CsvTextFields))

ExportFormats == {"CSV", "Excel"}

\* export_format.lower()
FormatLower(format) == IF format = "CSV" THEN "csv" ELSE "excel"

\* file_name=f"cleaned_data.{export_format.lower()}" (line 331)
DownloadName(format) ==
    <<"c", "l", "e", "a", "n", "e", "d", "_", "d", "a", "t", "a", ".">> \o
    (IF format = "CSV" THEN <<"c", "s", "v">> ELSE <<"e", "x", "c", "e", "l">>)

\* Lines 326-327: the selectbox and convert_df.
Export ==
    /\ pc = "cleaned"
    /\ \E format \in ExportFormats :
        export_data' = convert_df(df_cleaned, FormatLower(format))
    /\ pc' = "exported"
    /\ UNCHANGED <<uploaded_file, parser, df, raw_shown, method, custom_fill,
                   df_cleaned, df_again, selected_column, outliers, reloaded>>

\* The downloaded file is uploaded again and load_data reads it back.
Reload ==
    /\ pc = "exported"
    /\ \E format \in ExportFormats :
        /\ FormatLower(format) = export_data.format
        /\ uploader_accepts(DownloadName(format))
        /\ load_data(DownloadName(format)) = "read_csv"
        /\ uploaded_file' = DownloadName(format)
        /\ parser' = load_data(DownloadName(format))
        /\ reloaded' = read_csv(export_data.lines)
    /\ pc' = "reloaded"
    /\ UNCHANGED <<df, raw_shown, method, custom_fill, df_cleaned, df_again,
                   selected_column, outliers, export_data>>

NextCsv == LoadCsv \/ Clean \/ Export \/ Reload

SpecCsv == Init /\ [][NextCsv]_vars

(***************************************************************************)
(* Outlier detection (lines 130-138, 209-223, 294-300).                    *)
(***************************************************************************)
OutFields == {<<>>, <<"1">>, <<"1", "0", "0">>}

\* Files of an id column and a value column.
OutFiles ==
    UNION {{<<ColumnNames>> \o [i \in 1 .. r |-> <<IntStr(i), vals[i]>>] :
                vals \in [1 .. r -> OutFields]} :
            r \in 0 .. MaxOutRows}

LoadOut == LoadFrom(OutFiles)

\* Float arithmetic: NaN in, NaN out.
FSub(a, b) == IF isna(a) \/ isna(b) THEN NaN ELSE RSub(a, b)

FAdd(a, b) == IF isna(a) \/ isna(b) THEN NaN ELSE RAdd(a, b)

FMul(a, b) == IF isna(a) \/ isna(b) THEN NaN ELSE RMul(a, b)

RECURSIVE SeriesOf(_, _, _, _)
\* df[mask][column]: <<index label, value>> of the rows at the positions in
\* mask, from position i on.
SeriesOf(f, column, mask, i) ==
    IF i > Len(f.rows) THEN <<>>
    ELSE (IF i \in mask THEN <<(<<f.rows[i].idx, f.rows[i].cells[column]>>)>> ELSE <<>>)
            \o SeriesOf(f, column, mask, i + 1)

\* Mutant of detect_outliers: a value on a bound is an outlier too.
detect_outliers_inclusive(f, column) ==
    LET col == Column(f, column)
        Q1 == quantile(col, 1, 4)
        Q3 == quantile(col, 3, 4)
        IQR == FSub(Q3, Q1)
        lower_bound == FSub(Q1, FMul(Num(3, 2), IQR))
        upper_bound == FAdd(Q3, FMul(Num(3, 2), IQR))
    IN  SeriesOf(f, column,
                 {i \in 1 .. Len(col) : ~RLess(lower_bound, col[i]) \/ ~RLess(col[i], upper_bound)},
                 1)

\* detect_outliers (lines 130-138).
detect_outliers(f, column) ==
    LET col == Column(f, column)
        Q1 == quantile(col, 1, 4)
        Q3 == quantile(col, 3, 4)
        IQR == FSub(Q3, Q1)
        lower_bound == FSub(Q1, FMul(Num(3, 2), IQR))
        upper_bound == FAdd(Q3, FMul(Num(3, 2), IQR))
    IN  SeriesOf(f, column,
                 {i \in 1 .. Len(col) : RLess(col[i], lower_bound) \/ RLess(upper_bound, col[i])},
                 1)

\* Lines 209, 220-223 and 294-295: a numeric column is selected and the
\* "Detect Outliers" box is ticked.
DetectOutliers ==
    /\ pc = "cleaned"
    /\ select_dtypes_number(df_cleaned) # {}
    /\ \E column \in select_dtypes_number(df_cleaned) :
        /\ selected_column' = column
        /\ outliers' = detect_outliers(df_cleaned, column)
    /\ pc' = "outliers"
    /\ UNCHANGED <<uploaded_file, parser, df, raw_shown, method, custom_fill,
                   df_cleaned, df_again, export_data, reloaded>>

NextOut == LoadOut \/ Clean \/ DetectOutliers

SpecOut == Init /\ [][NextOut]_vars

(***************************************************************************)
(* Claims about clean_data, checked under Spec.  raw_shown is the frame as *)
(* it was before the clean_data call; df is the caller's frame after it.   *)
(***************************************************************************)
FillMethods == {"mean", "median", "zero", "custom"}

Cleaned == pc = "cleaned"

\* The columns whose dtype is a number dtype.
NumericCols(f) == {c \in 1 .. Len(f.dtypes) : f.dtypes[c] # "object"}

AnyNa(f) == \E i \in 1 .. Len(f.rows) : RowHasNa(f.rows[i])

\* The rows of f that carry index label idx (a set of at most one row here).
RowsAt(f, idx) == {f.rows[i] : i \in {j \in 1 .. Len(f.rows) : f.rows[j].idx = idx}}

IdxIncreasing(f) ==
    \A i, j \in 1 .. Len(f.rows) : i < j => f.rows[i].idx < f.rows[j].idx

\* C1: clean_data never mutates its input: after the call the caller's frame
\* holds the same cells (the same missing cells) as before, whatever the method.
C1_InputNotMutated == Cleaned => df = raw_shown

\* C2: under every fill method the result has the input's columns and no
\* numeric column of the result holds a missing value, an entirely missing
\* numeric column included.
C2_NumericColumnsFilled ==
    (Cleaned /\ method \in FillMethods) =>
        /\ df_cleaned.columns = raw_shown.columns
        /\ \A c \in NumericCols(df_cleaned) :
             \A i \in 1 .. Len(df_cleaned.rows) : ~isna(df_cleaned.rows[i].cells[c])

\* C3: with the drop method the result has at most as many rows as the input,
\* no returned row holds a missing value in any column, and every input row
\* without a missing value appears in the result (up to duplicate removal).
C3_DropRemovesIncompleteRows ==
    (Cleaned /\ method = "drop") =>
        /\ Len(df_cleaned.rows) <= Len(raw_shown.rows)
        /\ ~AnyNa(df_cleaned)
        /\ \A i \in 1 .. Len(raw_shown.rows) :
             ~RowHasNa(raw_shown.rows[i]) =>
                \E j \in 1 .. Len(df_cleaned.rows) :
                    df_cleaned.rows[j].cells = raw_shown.rows[i].cells

\* A drop that removed a row for a missing text cell and kept a complete row.
C3_Witness ==
    /\ Cleaned /\ method = "drop"
    /\ Len(df_cleaned.rows) > 0
    /\ \E i \in 1 .. Len(raw_shown.rows) : \E c \in ColIdx(raw_shown) :
         /\ raw_shown.dtypes[c] = "object"
         /\ isna(raw_shown.rows[i].cells[c])
         /\ \A k \in ColIdx(raw_shown) : k # c => ~isna(raw_shown.rows[i].cells[k])

\* C4: a fill method changes only missing cells of numeric columns: every
\* returned row holds, in each cell that was not missing and in each cell of a
\* non-numeric column, the value of the input row it came from.
C4_FillTouchesOnlyMissingNumeric ==
    (Cleaned /\ method \in FillMethods) =>
        \A i \in 1 .. Len(df_cleaned.rows) :
            LET r == df_cleaned.rows[i]
            IN  /\ Cardinality(RowsAt(raw_shown, r.idx)) = 1
                /\ \A o \in RowsAt(raw_shown, r.idx) : \A c \in ColIdx(raw_shown) :
                     (~isna(o.cells[c]) \/ c \notin NumericCols(raw_shown))
                        => r.cells[c] = o.cells[c]

\* A fill that imputed a numeric cell of a row whose text cell is missing.
C4_Witness ==
    /\ Cleaned /\ method \in FillMethods
    /\ \E i \in 1 .. Len(df_cleaned.rows) :
         \E o \in RowsAt(raw_shown, df_cleaned.rows[i].idx) :
            \E c, t \in ColIdx(raw_shown) :
                /\ isna(o.cells[c]) /\ ~isna(df_cleaned.rows[i].cells[c])
                /\ raw_shown.dtypes[t] = "object" /\ isna(df_cleaned.rows[i].cells[t])

\* The rows after missing-value handling: the input rows without a missing
\* cell under drop, the rows of the (filled in place) frame under a fill.
AfterMissing ==
    IF method = "drop"
    THEN {raw_shown.rows[i] : i \in {j \in 1 .. Len(raw_shown.rows) :
                                        ~RowHasNa(raw_shown.rows[j])}}
    ELSE {df.rows[i] : i \in 1 .. Len(df.rows)}

\* C5: duplicates are removed after missing-value handling, first occurrence
\* kept: the returned rows are the rows after missing-value handling that no
\* earlier such row equals, in their original order, so no two returned rows
\* are identical.
C5_DedupAfterMissingKeepsFirst ==
    Cleaned =>
        /\ IdxIncreasing(df_cleaned)
        /\ \A i, j \in 1 .. Len(df_cleaned.rows) :
             i # j => df_cleaned.rows[i].cells # df_cleaned.rows[j].cells
        /\ {df_cleaned.rows[i] : i \in 1 .. Len(df_cleaned.rows)} =
             {r \in AfterMissing :
                ~\E e \in AfterMissing : e.idx < r.idx /\ e.cells = r.cells}

\* Two rows that differed in the input, became identical by imputation, and of
\* which only the first was returned.
C5_Witness ==
    /\ Cleaned /\ method \in FillMethods
    /\ \E i, j \in 1 .. Len(raw_shown.rows) :
         /\ i < j
         /\ raw_shown.rows[i].cells # raw_shown.rows[j].cells
         /\ df.rows[i].cells = df.rows[j].cells
         /\ RowsAt(df_cleaned, raw_shown.rows[i].idx) # {}
         /\ RowsAt(df_cleaned, raw_shown.rows[j].idx) = {}

\* C6: a second clean_data call with the default arguments on the cleaned
\* frame returns a frame equal to the cleaned frame.
\* (Stated on cleaned frames whose numeric columns hold no missing value, so
\* that the entirely missing column of C2 plays no part in it.)
C6_SecondCleanIsIdentity ==
    (/\ pc = "cleaned_again"
     /\ \A c \in NumericCols(df_cleaned) :
          \A i \in 1 .. Len(df_cleaned.rows) : ~isna(df_cleaned.rows[i].cells[c]))
        => df_again = df_cleaned

\* C6 as amended: the second call returns exactly the rows of the cleaned
\* frame that hold no missing value, in order; it is the cleaned frame itself
\* when that frame holds no missing value, as it always does after a drop.
C6_SecondCleanDropsOnlyMissing ==
    pc = "cleaned_again" =>
        /\ df_again.columns = df_cleaned.columns
        /\ IdxIncreasing(df_again)
        /\ {df_again.rows[i] : i \in 1 .. Len(df_again.rows)} =
             {df_cleaned.rows[i] : i \in {j \in 1 .. Len(df_cleaned.rows) :
                                            ~RowHasNa(df_cleaned.rows[j])}}
        /\ (~AnyNa(df_cleaned) => df_again = df_cleaned)
        /\ (method = "drop" => df_again = df_cleaned)

\* A second call that changed nothing on a frame a fill had deduplicated.
C6_Witness ==
    /\ pc = "cleaned_again" /\ method \in FillMethods
    /\ Len(df_cleaned.rows) < Len(raw_shown.rows)
    /\ Len(df_cleaned.rows) > 1
    /\ df_again = df_cleaned

\* C8: degenerate inputs.  On a frame without numeric columns every fill
\* method returns a frame (not None) whose cells are the input's and from
\* which the later duplicates are gone; on a frame of 0 rows every method
\* returns a frame of 0 rows with the same columns.
C8_DegenerateInputs ==
    Cleaned =>
        /\ ~df_cleaned.isnone
        /\ (NumericCols(raw_shown) = {} /\ method \in FillMethods) =>
             /\ \A i \in 1 .. Len(df_cleaned.rows) :
                  df_cleaned.rows[i] \in RowsAt(raw_shown, df_cleaned.rows[i].idx)
             /\ \A i \in 1 .. Len(raw_shown.rows) :
                  (RowsAt(df_cleaned, raw_shown.rows[i].idx) # {}) <=>
                     ~\E j \in 1 .. (i - 1) :
                         raw_shown.rows[j].cells = raw_shown.rows[i].cells
        /\ (Len(raw_shown.rows) = 0) =>
             /\ Len(df_cleaned.rows) = 0
             /\ df_cleaned.columns = raw_shown.columns

\* A fill on a frame without numeric columns that holds a missing text cell
\* and a duplicate row.
C8_Witness ==
    /\ Cleaned /\ method \in FillMethods
    /\ NumericCols(raw_shown) = {}
    /\ AnyNa(df_cleaned)
    /\ 0 < Len(df_cleaned.rows) /\ Len(df_cleaned.rows) < Len(raw_shown.rows)

(***************************************************************************)
(* Claim about load_data, checked under SpecLoad.                          *)
(***************************************************************************)
RECURSIVE Extension(_)
\* The characters after the last point of a name (the name itself without one).
Extension(name) ==
    IF name = <<>> \/ name[Len(name)] = "." THEN <<>>
    ELSE IF \A i \in 1 .. Len(name) : name[i] # "." THEN name
    ELSE Extension(SubSeq(name, 1, Len(name) - 1)) \o <<name[Len(name)]>>

\* C7: load hands a file whose extension is csv to the CSV parser, one whose
\* extension is xlsx or xls to the spreadsheet parser, and fails with
\* UnsupportedFormat, attempting no parser, on any other extension.
C7_LoadDispatch ==
    pc = "parsed" =>
        LET e == Extension(uploaded_file)
        IN  /\ e = <<"c", "s", "v">> => parser = "read_csv"
            /\ e \in {<<"x", "l", "s", "x">>, <<"x", "l", "s">>} => parser = "read_excel"
            /\ e \notin {<<"c", "s", "v">>, <<"x", "l", "s", "x">>, <<"x", "l", "s">>}
                  => parser = "UnsupportedFormat"

(***************************************************************************)
(* Claim about convert_df and the reload, checked under SpecCsv.           *)
(***************************************************************************)
CellsOf(f) == [i \in 1 .. Len(f.rows) |-> f.rows[i].cells]

\* The header line and one line per row, each of one field per column.
RowCountKept ==
    /\ Len(export_data.lines) = Len(df_cleaned.rows) + 1
    /\ \A i \in 1 .. Len(export_data.lines) :
         Len(export_data.lines[i]) = Len(df_cleaned.columns)

TextSurvivesCsv(f) ==
    \A c \in 1 .. Len(f.dtypes) :
        f.dtypes[c] = "object" =>
            /\ f.rows # <<>> =>
                 \E i \in 1 .. Len(f.rows) :
                    f.rows[i].cells[c].k = "str" /\ ~IsNumField(f.rows[i].cells[c].s)
            /\ \A i \in 1 .. Len(f.rows) :
                 f.rows[i].cells[c].k = "str" => f.rows[i].cells[c].s \notin NaTokens

SelectedValues == Column(df_cleaned, selected_column)

LowerBound ==
    FSub(quantile(SelectedValues, 1, 4),
         FMul(Num(3, 2), FSub(quantile(SelectedValues, 3, 4), quantile(SelectedValues, 1, 4))))

UpperBound ==
    FAdd(quantile(SelectedValues, 3, 4),
         FMul(Num(3, 2), FSub(quantile(SelectedValues, 3, 4), quantile(SelectedValues, 1, 4))))

OutOfBounds(v) == RLess(v, LowerBound) \/ RLess(UpperBound, v)

OutliersReported ==
    pc = "outliers" =>
        /\ \A i, j \in 1 .. Len(outliers) : i < j => outliers[i][1] < outliers[j][1]
        /\ {outliers[i] : i \in 1 .. Len(outliers)} =
             {<<df_cleaned.rows[i].idx, SelectedValues[i]>> :
                i \in {j \in 1 .. Len(df_cleaned.rows) : OutOfBounds(SelectedValues[j])}}
        /\ (\A i, j \in 1 .. Len(SelectedValues) : SelectedValues[i] = SelectedValues[j])
              => outliers = <<>>
        /\ SelectedValues = <<Num(1, 1), Num(1, 1), Num(1, 1), Num(1, 1), Num(100, 1)>>
              => outliers = <<(<<df_cleaned.rows[5].idx, Num(100, 1)>>)>>

====
